---------------------------- MODULE Spec2Model ----------------------------
(***************************************************************************)
(* A model of TuOrchestrator (src/tu_orchestrator/orchestrator.py).        *)
(*                                                                         *)
(* The orchestrator is a set of asyncio coroutines run by one cooperative  *)
(* scheduler.  A coroutine runs atomically from one `await` of a           *)
(* collaborator to the next; every `await` of a collaborator is a          *)
(* suspension point at which the other coroutines may run.  A program      *)
(* position "X" below means "the call X has been issued and the coroutine  *)
(* is suspended in it"; the action that resumes the coroutine takes the    *)
(* outcome of the call (it returned, or it raised) and runs the code up to *)
(* the next `await`, whose call it issues.                                 *)
(*                                                                         *)
(* The collaborators (AgentManager, WorkflowManager, DeploymentManager,    *)
(* the LangGraph and n8n integrations, the metrics collector) are not part *)
(* of the source at hand; each of their calls either returns or raises,    *)
(* and what they return is modelled from the specification where a         *)
(* property needs it.                                                      *)
(***************************************************************************)
EXTENDS Integers, Sequences, FiniteSets, TLC

(***************************************************************************)
(* Bounds of the model.                                                    *)
(***************************************************************************)
MaxLaunches == 2      \* launch_full_workflow calls (one coroutine each)
MaxAgents == 2        \* agents get_agents_by_phase may return
MaxStarts == 2        \* start() calls, hence health-check loops created
MaxStops == 1         \* stop() calls
MaxStoppers == 1      \* direct stop_workflow calls (one coroutine each)
MaxApprovers == 2     \* approve_deployment calls (one coroutine each)
MaxMonitors == 1      \* monitor_agent_states / get_orchestration_status calls
MaxDetectors == 2     \* detect_cyclical_dependencies calls

NoProject == 0        \* current_project_id = None

Launchers == 1..MaxLaunches
ProjectIds == 1..MaxLaunches
Loops == 1..MaxStarts
Stoppers == 1..MaxStoppers
ByStop == 0           \* the caller of the stop_workflow calls stop() makes
Approvers == 1..MaxApprovers
Monitors == 1..MaxMonitors
Detectors == 1..MaxDetectors

\* start(): the awaits of lines 77-84, in order
InitOrder ==
    <<"agent_manager", "workflow_manager", "deployment_manager",
      "langgraph", "n8n", "metrics">>

\* stop(): the awaits of lines 107-112, in order
ShutdownOrder ==
    <<"metrics", "n8n", "langgraph", "deployment_manager",
      "workflow_manager", "agent_manager">>

\* _health_check_loop: the awaits of lines 303-310, in order
HealthOrder == <<"agent_manager", "workflow_manager", "langgraph", "n8n">>

\* Settings.workflow_phases, its default
workflow_phases ==
    <<"research_fact_gathering", "content_creation",
      "development_prototyping", "refinement_organization">>

\* the phase lists an instance may be configured with: the default and a
\* list of the deployment's own
PhaseLists == {workflow_phases, <<"research", "content">>}

VARIABLES
    \* ---- the configuration the instance was constructed with
    configPhases,         \* self.config.workflow_phases
    \* ---- TuOrchestrator fields
    status,               \* self.status
    current_project_id,   \* self.current_project_id
    running_workflows,    \* self.running_workflows: project id -> entry
    \* ---- the caller that owns the instance: start() / stop() calls
    ctlPc,                \* where the start()/stop() call is
    ctlIdx,               \* index into InitOrder / ShutdownOrder
    stopTodo,             \* stop(): ids of list(keys()) not yet handled
    starts,               \* start() calls begun
    stops,                \* stop() calls begun
    \* ---- _health_check_loop tasks, one per asyncio.create_task
    hcPc,
    hcIdx,                \* index into HealthOrder
    hcInvoked,            \* health checks issued in the iteration begun last
    hcRaised,             \* the iteration ended last ended in the except clause
    \* ---- launch_full_workflow calls
    lfPc,
    lfProject,            \* local project_id (NoProject: unbound)
    lfAgents,             \* local research_agents (their number)
    lfTasks,              \* local research_tasks
    nextProject,          \* WorkflowManager: projects created so far
    \* ---- direct stop_workflow calls
    swPc,
    swWid,
    stoppedIds,           \* ids whose entry a stop_workflow call deleted
    keyErrors,            \* stop_workflow calls whose del raised KeyError,
                          \* each as <<caller, workflow id>>
    \* ---- approve_deployment calls
    apPc,
    apProposal,           \* argument deployment_proposal
    is_valid,             \* local is_valid
    has_cycles,           \* local has_cycles
    apInvoked,            \* collaborator calls issued by this call
    apFault,              \* a collaborator call of this call raised
    approveCalls,         \* deployment_manager.approve_deployment calls per proposal
    approved,             \* DeploymentManager: proposals marked approved
    \* ---- monitor_agent_states / get_orchestration_status calls
    moPc,
    moOp,                 \* which of the two the caller called
    moInvoked,            \* collaborator operations invoked by this call
    recordedAgents,       \* MetricsCollector: agents whose state was recorded
    \* ---- detect_cyclical_dependencies calls
    dcPc,
    dcProject,            \* argument project_id
    dcCycles,             \* local cycles
    dcCalls,              \* collaborator calls issued by this call, in order
    dcResult,             \* << >>, or <<the list returned>>
    \* ---- history of the owner's current (or, between calls, last) call
    initDone,             \* start(): components whose initialize() returned
    stopKeys,             \* keys of running_workflows when stop() began
    stopSkipped,          \* ids stop() found gone when it came to them
    cancelReq,            \* ids given to workflow_manager.cancel_workflow
    teardownCancelled,    \* cancelReq when the first shutdown was issued
    shutdownLog,          \* components asked to shut down, in order
    stopReq,              \* a stop() call has begun since the last start()
    itersAfterStop        \* per loop: iterations begun since (saturates)

moVars == <<moPc, moOp, moInvoked, recordedAgents>>

dcVars == <<dcPc, dcProject, dcCycles, dcCalls, dcResult>>

orchVars ==
    <<configPhases, moVars, dcVars, status, current_project_id, running_workflows,
      ctlPc, ctlIdx, stopTodo, starts, stops, hcPc, hcIdx, hcInvoked,
      hcRaised, lfPc, lfProject, lfAgents, lfTasks, nextProject, swPc, swWid,
      stoppedIds, keyErrors, initDone, stopKeys, stopSkipped, cancelReq,
      teardownCancelled, shutdownLog, stopReq, itersAfterStop>>

apVars ==
    <<apPc, apProposal, is_valid, has_cycles, apInvoked, apFault,
      approveCalls, approved>>

vars == <<orchVars, apVars>>

Range(s) == {s[i] : i \in 1..Len(s)}

-----------------------------------------------------------------------------
(***************************************************************************)
(* Deployment proposals and the DeploymentManager's answers.               *)
(***************************************************************************)

\* The proposals handed to approve_deployment: a DAG, a three-cycle, a
\* self-loop, one with no components, one whose edge names an undeclared
\* component.
Proposals ==
    { [id |-> "dag", components |-> {"A", "B", "C"},
       edges |-> << <<"A", "B">>, <<"B", "C">> >>],
      [id |-> "cycle3", components |-> {"A", "B", "C"},
       edges |-> << <<"A", "B">>, <<"B", "C">>, <<"C", "A">> >>],
      [id |-> "selfloop", components |-> {"A", "B"},
       edges |-> << <<"A", "B">>, <<"B", "B">> >>],
      [id |-> "empty", components |-> {},
       edges |-> << >>],
      [id |-> "dangling", components |-> {"A"},
       edges |-> << <<"A", "B">> >>] }

ProposalIds == {p.id : p \in Proposals}

NoProposal == [id |-> "none", components |-> {}, edges |-> << >>]

\* validate_proposal: non-empty component list, every edge references
\* declared components
ValidateProposal(p) ==
    /\ p.components # {}
    /\ \A i \in 1..Len(p.edges) :
          p.edges[i][1] \in p.components /\ p.edges[i][2] \in p.components

\* the successors of n, in the order the edges were declared
Successors(edges, n) ==
    LET RECURSIVE Build(_)
        Build(i) ==
            IF i > Len(edges) THEN << >>
            ELSE IF edges[i][1] = n THEN <<edges[i][2]>> \o Build(i + 1)
            ELSE Build(i + 1)
    IN Build(1)

\* three-colour depth-first search: a back edge to a gray node is a cycle
RECURSIVE DfsVisit(_, _, _)
RECURSIVE DfsEach(_, _, _, _)
DfsVisit(n, color, edges) ==
    LET r == DfsEach(Successors(edges, n), 1, [color EXCEPT ![n] = "gray"], edges)
    IN [color |-> [r.color EXCEPT ![n] = "black"], cyc |-> r.cyc]

DfsEach(succs, i, color, edges) ==
    IF i > Len(succs) THEN [color |-> color, cyc |-> FALSE]
    ELSE IF color[succs[i]] = "gray" THEN [color |-> color, cyc |-> TRUE]
    ELSE IF color[succs[i]] = "white"
         THEN LET r == DfsVisit(succs[i], color, edges)
              IN IF r.cyc THEN r ELSE DfsEach(succs, i + 1, r.color, edges)
         ELSE DfsEach(succs, i + 1, color, edges)

\* check_cyclical_dependencies: whether the proposal's graph has a cycle
CheckCyclicalDependencies(p) ==
    LET nodes == p.components
        RECURSIVE Roots(_, _)
        Roots(todo, color) ==
            IF todo = {} THEN FALSE
            ELSE LET n == CHOOSE x \in todo : TRUE
                 IN IF color[n] # "white" THEN Roots(todo \ {n}, color)
                    ELSE LET r == DfsVisit(n, color, p.edges)
                         IN r.cyc \/ Roots(todo \ {n}, r.color)
    IN Roots(nodes, [n \in nodes |-> "white"])

\* DeploymentManager.approve_deployment, when it returns: the proposal is
\* marked approved; approving an approved proposal changes nothing
MarkApproved(set, p) == set \cup {p.id}

\* a count of calls, kept up to "more than one"
Bump(n) == IF n < 2 THEN n + 1 ELSE n

-----------------------------------------------------------------------------
(***************************************************************************)
(* approve_deployment (lines 210-245).                                     *)
(***************************************************************************)

\* the call begins; validate_proposal is issued (line 216)
ApproveBegin(a, p) ==
    /\ apPc[a] = "idle"
    /\ apProposal' = [apProposal EXCEPT ![a] = p]
    /\ apInvoked' = [apInvoked EXCEPT ![a] = {"validate_proposal"}]
    /\ apPc' = [apPc EXCEPT ![a] = "validate_proposal"]
    /\ UNCHANGED <<is_valid, has_cycles, apFault, approveCalls, approved>>
    /\ UNCHANGED orchVars

\* the except clause of lines 243-245: logs and returns False
ApproveExcept(a) ==
    /\ apFault' = [apFault EXCEPT ![a] = TRUE]
    /\ apPc' = [apPc EXCEPT ![a] = "returned_False"]

\* validate_proposal returns or raises (lines 216-225)
ApproveValidateResume(a, ok) ==
    /\ apPc[a] = "validate_proposal"
    /\ IF ~ok
       THEN /\ ApproveExcept(a)
            /\ UNCHANGED <<is_valid, apInvoked>>
       ELSE /\ is_valid' = [is_valid EXCEPT ![a] =
                   IF ValidateProposal(apProposal[a]) THEN "True" ELSE "False"]
            /\ IF ~ValidateProposal(apProposal[a])
               THEN /\ apPc' = [apPc EXCEPT ![a] = "returned_False"]
                    /\ UNCHANGED apInvoked
               ELSE /\ apPc' = [apPc EXCEPT ![a] = "check_cyclical_dependencies"]
                    /\ apInvoked' = [apInvoked EXCEPT ![a] =
                          @ \cup {"check_cyclical_dependencies"}]
            /\ UNCHANGED apFault
    /\ UNCHANGED <<apProposal, has_cycles, approveCalls, approved>>
    /\ UNCHANGED orchVars

\* a cycle check that does not gate the approval
ApproveCycleResume_NoGate(a, ok) ==
    /\ apPc[a] = "check_cyclical_dependencies"
    /\ IF ~ok
       THEN /\ ApproveExcept(a)
            /\ UNCHANGED <<has_cycles, apInvoked, approveCalls>>
       ELSE /\ has_cycles' = [has_cycles EXCEPT ![a] =
                   IF CheckCyclicalDependencies(apProposal[a]) THEN "True" ELSE "False"]
            /\ apPc' = [apPc EXCEPT ![a] = "approve_deployment"]
            /\ apInvoked' = [apInvoked EXCEPT ![a] = @ \cup {"approve_deployment"}]
            /\ approveCalls' = [approveCalls EXCEPT ![apProposal[a].id] = Bump(@)]
            /\ UNCHANGED apFault
    /\ UNCHANGED <<apProposal, is_valid, approved>>
    /\ UNCHANGED orchVars

\* check_cyclical_dependencies returns or raises (lines 223-232); on no
\* cycle deployment_manager.approve_deployment is issued
ApproveCycleResume(a, ok) ==
    /\ apPc[a] = "check_cyclical_dependencies"
    /\ IF ~ok
       THEN /\ ApproveExcept(a)
            /\ UNCHANGED <<has_cycles, apInvoked, approveCalls>>
       ELSE /\ has_cycles' = [has_cycles EXCEPT ![a] =
                   IF CheckCyclicalDependencies(apProposal[a]) THEN "True" ELSE "False"]
            /\ IF CheckCyclicalDependencies(apProposal[a])
               THEN /\ apPc' = [apPc EXCEPT ![a] = "returned_False"]
                    /\ UNCHANGED <<apInvoked, approveCalls>>
               ELSE /\ apPc' = [apPc EXCEPT ![a] = "approve_deployment"]
                    /\ apInvoked' = [apInvoked EXCEPT ![a] =
                          @ \cup {"approve_deployment"}]
                    /\ approveCalls' =
                          [approveCalls EXCEPT ![apProposal[a].id] = Bump(@)]
            /\ UNCHANGED apFault
    /\ UNCHANGED <<apProposal, is_valid, approved>>
    /\ UNCHANGED orchVars

\* deployment_manager.approve_deployment returns or raises (lines 232-238);
\* on return the deployment_automation trigger is issued
ApproveIssueResume(a, ok) ==
    /\ apPc[a] = "approve_deployment"
    /\ IF ~ok
       THEN /\ ApproveExcept(a)
            /\ UNCHANGED <<apInvoked, approved>>
       ELSE /\ apPc' = [apPc EXCEPT ![a] = "trigger_workflow"]
            /\ apInvoked' = [apInvoked EXCEPT ![a] = @ \cup {"trigger_workflow"}]
            /\ approved' = MarkApproved(approved, apProposal[a])
            /\ UNCHANGED apFault
    /\ UNCHANGED <<apProposal, is_valid, has_cycles, approveCalls>>
    /\ UNCHANGED orchVars

\* n8n.trigger_workflow("deployment_automation") returns or raises
\* (lines 235-245)
ApproveTriggerResume(a, ok) ==
    /\ apPc[a] = "trigger_workflow"
    /\ IF ~ok
       THEN ApproveExcept(a)
       ELSE /\ apPc' = [apPc EXCEPT ![a] = "returned_True"]
            /\ UNCHANGED apFault
    /\ UNCHANGED <<apProposal, is_valid, has_cycles, apInvoked, approveCalls,
                   approved>>
    /\ UNCHANGED orchVars

ApprovalNext ==
    \/ \E a \in Approvers, p \in Proposals : ApproveBegin(a, p)
    \/ \E a \in Approvers, ok \in BOOLEAN : ApproveValidateResume(a, ok)
    \/ \E a \in Approvers, ok \in BOOLEAN : ApproveCycleResume(a, ok)
    \/ \E a \in Approvers, ok \in BOOLEAN : ApproveIssueResume(a, ok)
    \/ \E a \in Approvers, ok \in BOOLEAN : ApproveTriggerResume(a, ok)

-----------------------------------------------------------------------------
(***************************************************************************)
(* The running_workflows dictionary.                                       *)
(***************************************************************************)

Keys == DOMAIN running_workflows

\* del d[p] / d.pop(p, None) of a present key
Remove(rw, p) == [q \in DOMAIN rw \ {p} |-> rw[q]]

\* d[p] = e
Put(rw, p, e) == [q \in DOMAIN rw \cup {p} |-> IF q = p THEN e ELSE rw[q]]

\* list(d.keys()): insertion order, which is the order of the project ids
\* (an id is inserted in the step that allocates it, and never again)
RECURSIVE KeyList(_)
KeyList(S) ==
    IF S = {} THEN << >>
    ELSE LET m == CHOOSE x \in S : \A y \in S : x <= y
         IN <<m>> \o KeyList(S \ {m})

\* the entry written at lines 142-146 (start_time is not modelled)
StartingEntry == [current_phase |-> "None", status |-> "starting"]

\* the entry after lines 198-200
RunningEntry(tasks) ==
    [current_phase |-> "research_fact_gathering", status |-> "running",
     research_tasks |-> tasks]

frameOfCtl == <<ctlPc, ctlIdx, stopTodo, starts, stops>>
frameOfLoops == <<hcPc, hcIdx, hcInvoked, hcRaised>>
frameOfLaunch == <<lfPc, lfProject, lfAgents, lfTasks, nextProject>>
frameOfStoppers == <<swPc, swWid, stoppedIds, keyErrors>>
stopHistory == <<stopKeys, stopSkipped, teardownCancelled, shutdownLog>>

\* where the owner of the instance is between two calls
CtlRest == {"idle", "start_returned", "start_raised", "stop_returned", "stop_raised"}

-----------------------------------------------------------------------------
(***************************************************************************)
(* start() (lines 70-95).                                                  *)
(***************************************************************************)

\* a start() that reports Running as soon as it begins initialising
StartBegin_RunningEarly ==
    /\ ctlPc \in CtlRest
    /\ starts < MaxStarts
    /\ starts' = starts + 1
    /\ status' = "running"
    /\ ctlPc' = "initialize"
    /\ ctlIdx' = 1
    /\ initDone' = {}
    /\ stopReq' = FALSE
    /\ itersAfterStop' = [l \in Loops |-> 0]
    /\ stopKeys' = {}
    /\ stopSkipped' = {}
    /\ teardownCancelled' = {}
    /\ shutdownLog' = << >>
    /\ UNCHANGED <<current_project_id, running_workflows, stopTodo, stops,
                   frameOfLoops, frameOfLaunch, frameOfStoppers, cancelReq,
                   apVars, moVars, configPhases, dcVars>>

\* lines 72-77: status = INITIALIZING, agent_manager.initialize() is issued
StartBegin ==
    /\ ctlPc \in CtlRest
    /\ starts < MaxStarts
    /\ starts' = starts + 1
    /\ status' = "initializing"
    /\ ctlPc' = "initialize"
    /\ ctlIdx' = 1
    /\ initDone' = {}
    /\ stopReq' = FALSE
    /\ itersAfterStop' = [l \in Loops |-> 0]
    /\ stopKeys' = {}
    /\ stopSkipped' = {}
    /\ teardownCancelled' = {}
    /\ shutdownLog' = << >>
    /\ UNCHANGED <<current_project_id, running_workflows, stopTodo, stops,
                   frameOfLoops, frameOfLaunch, frameOfStoppers, cancelReq,
                   apVars, moVars, configPhases, dcVars>>

\* one of the awaits of lines 77-84 returns or raises; after the last one
\* the health-check task is created and status = RUNNING (lines 87-89);
\* a raise sets status = ERROR and is re-raised (lines 92-95)
StartInitResume(ok) ==
    /\ ctlPc = "initialize"
    /\ IF ~ok
       THEN /\ status' = "error"
            /\ ctlPc' = "start_raised"
            /\ ctlIdx' = 0
            /\ UNCHANGED <<initDone, hcPc>>
       ELSE /\ initDone' = initDone \cup {InitOrder[ctlIdx]}
            /\ IF ctlIdx < Len(InitOrder)
               THEN /\ ctlIdx' = ctlIdx + 1
                    /\ UNCHANGED <<status, ctlPc, hcPc>>
               ELSE /\ hcPc' = [hcPc EXCEPT ![starts] = "created"]
                    /\ status' = "running"
                    /\ ctlPc' = "start_returned"
                    /\ ctlIdx' = 0
    /\ UNCHANGED <<current_project_id, running_workflows, stopTodo, starts, stops,
                   hcIdx, hcInvoked, hcRaised, frameOfLaunch, frameOfStoppers,
                   stopHistory, cancelReq, stopReq, itersAfterStop,
                   apVars, moVars, configPhases, dcVars>>

-----------------------------------------------------------------------------
(***************************************************************************)
(* stop() (lines 97-119) and the stop_workflow calls it makes              *)
(* (lines 284-296).                                                        *)
(***************************************************************************)

\* stop_workflow of an id that is not in running_workflows returns at once
\* (line 286): the ids at the head of the list that are gone are passed over
RECURSIVE SkipGone(_, _)
SkipGone(todo, keys) ==
    IF todo = << >> THEN << >>
    ELSE IF Head(todo) \in keys THEN todo
    ELSE SkipGone(Tail(todo), keys)

\* a stop_workflow that goes to n8n.stop_workflow without asking the
\* workflow manager to cancel
StopWorkflowLoop_NoCancel(todo, keys, skipped, snapshot) ==
    LET rest == SkipGone(todo, keys)
    IN /\ stopSkipped' = skipped \cup (Range(todo) \ Range(rest))
       /\ stopTodo' = rest
       /\ stopKeys' = snapshot
       /\ UNCHANGED cancelReq
       /\ IF rest # << >>
          THEN /\ ctlPc' = "n8n_stop_workflow"
               /\ ctlIdx' = 0
               /\ shutdownLog' = << >>
               /\ teardownCancelled' = {}
          ELSE /\ ctlPc' = "shutdown"
               /\ ctlIdx' = 1
               /\ shutdownLog' = <<ShutdownOrder[1]>>
               /\ teardownCancelled' = cancelReq \cap snapshot

\* the loop of lines 103-104 from `todo` on, up to the next await: either
\* workflow_manager.cancel_workflow of the next id still present (line 290)
\* or, the list exhausted, metrics.stop() (line 107)
StopWorkflowLoop(todo, keys, skipped, snapshot) ==
    LET rest == SkipGone(todo, keys)
    IN /\ stopSkipped' = skipped \cup (Range(todo) \ Range(rest))
       /\ stopTodo' = rest
       /\ stopKeys' = snapshot
       /\ IF rest # << >>
          THEN /\ cancelReq' = cancelReq \cup {Head(rest)}
               /\ ctlPc' = "cancel_workflow"
               /\ ctlIdx' = 0
               /\ shutdownLog' = << >>
               /\ teardownCancelled' = {}
          ELSE /\ UNCHANGED cancelReq
               /\ ctlPc' = "shutdown"
               /\ ctlIdx' = 1
               /\ shutdownLog' = <<ShutdownOrder[1]>>
               /\ teardownCancelled' = cancelReq \cap snapshot

\* lines 99-107: the call begins
StopBegin ==
    /\ ctlPc \in CtlRest
    /\ stops < MaxStops
    /\ stops' = stops + 1
    /\ stopReq' = TRUE
    /\ initDone' = {}
    /\ StopWorkflowLoop(KeyList(Keys), Keys, {}, Keys)
    /\ UNCHANGED <<status, current_project_id, running_workflows, starts,
                   frameOfLoops, frameOfLaunch, frameOfStoppers, itersAfterStop,
                   apVars, moVars, configPhases, dcVars>>

\* the except clause of lines 117-119: logs and re-raises
StopExcept ==
    /\ ctlPc' = "stop_raised"
    /\ ctlIdx' = 0
    /\ stopTodo' = << >>

\* workflow_manager.cancel_workflow returns or raises (lines 290-293); on
\* return n8n.stop_workflow is issued
StopCancelResume(ok) ==
    /\ ctlPc = "cancel_workflow"
    /\ IF ok
       THEN /\ ctlPc' = "n8n_stop_workflow"
            /\ UNCHANGED <<ctlIdx, stopTodo>>
       ELSE StopExcept
    /\ UNCHANGED <<status, current_project_id, running_workflows, starts, stops,
                   frameOfLoops, frameOfLaunch, frameOfStoppers, initDone,
                   stopHistory, cancelReq, stopReq, itersAfterStop,
                   apVars, moVars, configPhases, dcVars>>

\* n8n.stop_workflow returns or raises (lines 293-296); on return the entry
\* is deleted (KeyError when it is gone) and the loop of stop() goes on
StopN8nResume(ok) ==
    /\ ctlPc = "n8n_stop_workflow"
    /\ IF ok /\ Head(stopTodo) \in Keys
       THEN /\ running_workflows' = Remove(running_workflows, Head(stopTodo))
            /\ StopWorkflowLoop(Tail(stopTodo), Keys \ {Head(stopTodo)},
                                stopSkipped, stopKeys)
            /\ stoppedIds' = stoppedIds \cup {Head(stopTodo)}
            /\ UNCHANGED keyErrors
       ELSE /\ StopExcept
            /\ keyErrors' =
                  IF ok THEN keyErrors \cup {<<ByStop, Head(stopTodo)>>}
                  ELSE keyErrors
            /\ UNCHANGED <<running_workflows, stopHistory, cancelReq, stoppedIds>>
    /\ UNCHANGED <<status, current_project_id, starts, stops, frameOfLoops,
                   frameOfLaunch, swPc, swWid, initDone, stopReq,
                   itersAfterStop, apVars, moVars, configPhases, dcVars>>

\* one of the awaits of lines 107-112 returns or raises; after the last one
\* status = IDLE (line 114)
StopShutdownResume(ok) ==
    /\ ctlPc = "shutdown"
    /\ IF ~ok
       THEN /\ StopExcept
            /\ UNCHANGED <<status, shutdownLog>>
       ELSE IF ctlIdx < Len(ShutdownOrder)
       THEN /\ ctlIdx' = ctlIdx + 1
            /\ shutdownLog' = Append(shutdownLog, ShutdownOrder[ctlIdx + 1])
            /\ UNCHANGED <<status, ctlPc, stopTodo>>
       ELSE /\ status' = "idle"
            /\ ctlPc' = "stop_returned"
            /\ ctlIdx' = 0
            /\ UNCHANGED <<shutdownLog, stopTodo>>
    /\ UNCHANGED <<current_project_id, running_workflows, starts, stops,
                   frameOfLoops, frameOfLaunch, frameOfStoppers, initDone,
                   stopKeys, stopSkipped, teardownCancelled, cancelReq, stopReq,
                   itersAfterStop, apVars, moVars, configPhases, dcVars>>

-----------------------------------------------------------------------------
(***************************************************************************)
(* Direct stop_workflow calls (lines 284-296).                             *)
(***************************************************************************)

\* line 286: an id that is not in running_workflows returns at once;
\* otherwise workflow_manager.cancel_workflow is issued (line 290)
StopWorkflowBegin(s, w) ==
    /\ swPc[s] = "idle"
    /\ swWid' = [swWid EXCEPT ![s] = w]
    /\ IF w \in Keys
       THEN /\ swPc' = [swPc EXCEPT ![s] = "cancel_workflow"]
            /\ cancelReq' = cancelReq \cup {w}
       ELSE /\ swPc' = [swPc EXCEPT ![s] = "returned"]
            /\ UNCHANGED cancelReq
    /\ UNCHANGED <<status, current_project_id, running_workflows, frameOfCtl,
                   frameOfLoops, frameOfLaunch, stoppedIds, keyErrors, initDone,
                   stopHistory, stopReq,
                   itersAfterStop, apVars, moVars, configPhases, dcVars>>

\* workflow_manager.cancel_workflow returns or raises
StopWorkflowCancelResume(s, ok) ==
    /\ swPc[s] = "cancel_workflow"
    /\ swPc' = [swPc EXCEPT ![s] = IF ok THEN "n8n_stop_workflow" ELSE "raised"]
    /\ UNCHANGED <<status, current_project_id, running_workflows, frameOfCtl,
                   frameOfLoops, frameOfLaunch, swWid, stoppedIds, keyErrors,
                   initDone, stopHistory,
                   cancelReq, stopReq, itersAfterStop,
                   apVars, moVars, configPhases, dcVars>>

\* n8n.stop_workflow returns or raises; on return the entry is deleted
\* (line 296; KeyError when it is gone)
StopWorkflowN8nResume(s, ok) ==
    /\ swPc[s] = "n8n_stop_workflow"
    /\ IF ok /\ swWid[s] \in Keys
       THEN /\ running_workflows' = Remove(running_workflows, swWid[s])
            /\ swPc' = [swPc EXCEPT ![s] = "returned"]
            /\ stoppedIds' = stoppedIds \cup {swWid[s]}
            /\ UNCHANGED keyErrors
       ELSE /\ swPc' = [swPc EXCEPT ![s] = "raised"]
            /\ keyErrors' =
                  IF ok THEN keyErrors \cup {<<s, swWid[s]>>} ELSE keyErrors
            /\ UNCHANGED <<running_workflows, stoppedIds>>
    /\ UNCHANGED <<status, current_project_id, frameOfCtl, frameOfLoops,
                   frameOfLaunch, swWid, initDone, stopHistory, cancelReq,
                   stopReq, itersAfterStop, apVars, moVars, configPhases,
                   dcVars>>

-----------------------------------------------------------------------------
(***************************************************************************)
(* _health_check_loop (lines 298-318).                                     *)
(***************************************************************************)

\* line 300, reached when the task first runs and when a sleep ends: the
\* loop goes on only if status is RUNNING, and then issues the first health
\* check (line 303)
HealthLoopTop(l) ==
    /\ hcPc[l] \in {"created", "sleep"}
    /\ IF status = "running"
       THEN /\ hcPc' = [hcPc EXCEPT ![l] = "health_check"]
            /\ hcIdx' = [hcIdx EXCEPT ![l] = 1]
            /\ hcInvoked' = [hcInvoked EXCEPT ![l] = {HealthOrder[1]}]
            /\ itersAfterStop' =
                  [itersAfterStop EXCEPT ![l] = IF stopReq THEN Bump(@) ELSE @]
       ELSE /\ hcPc' = [hcPc EXCEPT ![l] = "exited"]
            /\ UNCHANGED <<hcIdx, hcInvoked, itersAfterStop>>
    /\ UNCHANGED <<status, current_project_id, running_workflows, frameOfCtl,
                   hcRaised, frameOfLaunch, frameOfStoppers, initDone,
                   stopHistory, cancelReq, stopReq,
                   apVars, moVars, configPhases, dcVars>>

\* a loop whose health checks are not inside a try: a raise ends the task
HealthCheckResume_NoTry(l, ok) ==
    /\ hcPc[l] = "health_check"
    /\ IF ~ok
       THEN /\ hcPc' = [hcPc EXCEPT ![l] = "exited"]
            /\ hcIdx' = [hcIdx EXCEPT ![l] = 0]
            /\ hcRaised' = [hcRaised EXCEPT ![l] = TRUE]
            /\ UNCHANGED hcInvoked
       ELSE IF hcIdx[l] < Len(HealthOrder)
       THEN /\ hcIdx' = [hcIdx EXCEPT ![l] = @ + 1]
            /\ hcInvoked' =
                  [hcInvoked EXCEPT ![l] = @ \cup {HealthOrder[hcIdx[l] + 1]}]
            /\ UNCHANGED <<hcPc, hcRaised>>
       ELSE /\ hcPc' = [hcPc EXCEPT ![l] = "sleep"]
            /\ hcIdx' = [hcIdx EXCEPT ![l] = 0]
            /\ hcRaised' = [hcRaised EXCEPT ![l] = FALSE]
            /\ UNCHANGED hcInvoked
    /\ UNCHANGED <<status, current_project_id, running_workflows, frameOfCtl,
                   frameOfLaunch, frameOfStoppers, initDone, stopHistory,
                   cancelReq, stopReq, itersAfterStop,
                   apVars, moVars, configPhases, dcVars>>

\* one of the awaits of lines 303-310 returns or raises.  A raise leaves the
\* try block for the except clause (lines 315-316), which logs, and the
\* sleep is issued (line 318); a return issues the next check or, after the
\* last one, records the health metrics (line 313) and issues the sleep
HealthCheckResume(l, ok) ==
    /\ hcPc[l] = "health_check"
    /\ IF ~ok
       THEN /\ hcPc' = [hcPc EXCEPT ![l] = "sleep"]
            /\ hcIdx' = [hcIdx EXCEPT ![l] = 0]
            /\ hcRaised' = [hcRaised EXCEPT ![l] = TRUE]
            /\ UNCHANGED hcInvoked
       ELSE IF hcIdx[l] < Len(HealthOrder)
       THEN /\ hcIdx' = [hcIdx EXCEPT ![l] = @ + 1]
            /\ hcInvoked' =
                  [hcInvoked EXCEPT ![l] = @ \cup {HealthOrder[hcIdx[l] + 1]}]
            /\ UNCHANGED <<hcPc, hcRaised>>
       ELSE /\ hcPc' = [hcPc EXCEPT ![l] = "sleep"]
            /\ hcIdx' = [hcIdx EXCEPT ![l] = 0]
            /\ hcRaised' = [hcRaised EXCEPT ![l] = FALSE]
            /\ UNCHANGED hcInvoked
    /\ UNCHANGED <<status, current_project_id, running_workflows, frameOfCtl,
                   frameOfLaunch, frameOfStoppers, initDone, stopHistory,
                   cancelReq, stopReq, itersAfterStop,
                   apVars, moVars, configPhases, dcVars>>

-----------------------------------------------------------------------------
(***************************************************************************)
(* launch_full_workflow (lines 121-175) and _trigger_research_phase        *)
(* (lines 177-208).                                                        *)
(***************************************************************************)

\* the task id assign_task returns for agent a of project p
TaskId(p, a) == <<p, a>>

\* line 137: workflow_manager.create_project is issued
LaunchBegin(k) ==
    /\ lfPc[k] = "idle"
    /\ lfPc' = [lfPc EXCEPT ![k] = "create_project"]
    /\ UNCHANGED <<status, current_project_id, running_workflows, frameOfCtl,
                   frameOfLoops, lfProject, lfAgents, lfTasks, nextProject,
                   frameOfStoppers, initDone, stopHistory, cancelReq, stopReq,
                   itersAfterStop, apVars, moVars, configPhases, dcVars>>

\* an except clause that re-raises without removing the entry
LaunchExcept_NoPop(k) ==
    /\ lfPc' = [lfPc EXCEPT ![k] = "raised"]
    /\ lfAgents' = [lfAgents EXCEPT ![k] = 0]
    /\ lfTasks' = [lfTasks EXCEPT ![k] = << >>]
    /\ UNCHANGED running_workflows

\* the except clause of lines 171-175, project_id bound: the entry is
\* popped (if there) and the exception re-raised; the locals of
\* _trigger_research_phase are gone
LaunchExcept(k) ==
    /\ lfPc' = [lfPc EXCEPT ![k] = "raised"]
    /\ lfAgents' = [lfAgents EXCEPT ![k] = 0]
    /\ lfTasks' = [lfTasks EXCEPT ![k] = << >>]
    /\ running_workflows' =
          IF lfProject[k] \in Keys
          THEN Remove(running_workflows, lfProject[k])
          ELSE running_workflows

\* create_project returns or raises (lines 137-149, 179-182).  On return
\* the project is recorded and get_agents_by_phase is issued; on a raise
\* the except clause reads the unbound local project_id (line 173), which
\* raises UnboundLocalError in place of the original exception
LaunchCreateResume(k, ok) ==
    /\ lfPc[k] = "create_project"
    /\ IF ok
       THEN /\ nextProject' = nextProject + 1
            /\ lfProject' = [lfProject EXCEPT ![k] = nextProject + 1]
            /\ current_project_id' = nextProject + 1
            /\ running_workflows' =
                  Put(running_workflows, nextProject + 1, StartingEntry)
            /\ lfPc' = [lfPc EXCEPT ![k] = "get_agents_by_phase"]
       ELSE /\ lfPc' = [lfPc EXCEPT ![k] = "raised_unbound"]
            /\ UNCHANGED <<nextProject, lfProject, current_project_id,
                           running_workflows>>
    /\ UNCHANGED <<status, frameOfCtl, frameOfLoops, lfAgents, lfTasks,
                   frameOfStoppers, initDone, stopHistory, cancelReq, stopReq,
                   itersAfterStop, apVars, moVars, configPhases, dcVars>>

\* an update that stops after line 198: the phase is written, the status
\* and the task list are not
LaunchRecordPhase_PhaseOnly(k, n, tasks) ==
    IF lfProject[k] \in Keys
    THEN /\ running_workflows' =
               Put(running_workflows, lfProject[k],
                   [current_phase |-> "research_fact_gathering",
                    status |-> "starting"])
         /\ lfPc' = [lfPc EXCEPT ![k] = "trigger_workflow"]
         /\ lfAgents' = [lfAgents EXCEPT ![k] = n]
         /\ lfTasks' = [lfTasks EXCEPT ![k] = tasks]
    ELSE LaunchExcept(k)

\* lines 197-203, all agents dispatched: the entry is updated (KeyError when
\* it is gone) and the research_coordination trigger is issued
LaunchRecordPhase(k, n, tasks) ==
    IF lfProject[k] \in Keys
    THEN /\ running_workflows' =
               Put(running_workflows, lfProject[k], RunningEntry(tasks))
         /\ lfPc' = [lfPc EXCEPT ![k] = "trigger_workflow"]
         /\ lfAgents' = [lfAgents EXCEPT ![k] = n]
         /\ lfTasks' = [lfTasks EXCEPT ![k] = tasks]
    ELSE LaunchExcept(k)

\* get_agents_by_phase returns n agents or raises (lines 182-194)
LaunchAgentsResume(k, ok, n) ==
    /\ lfPc[k] = "get_agents_by_phase"
    /\ IF ~ok
       THEN LaunchExcept(k)
       ELSE IF n = 0
       THEN LaunchRecordPhase(k, n, << >>)
       ELSE /\ lfPc' = [lfPc EXCEPT ![k] = "assign_task"]
            /\ lfAgents' = [lfAgents EXCEPT ![k] = n]
            /\ UNCHANGED <<running_workflows, lfTasks>>
    /\ UNCHANGED <<status, current_project_id, frameOfCtl, frameOfLoops,
                   lfProject, nextProject, frameOfStoppers, initDone,
                   stopHistory, cancelReq, stopReq, itersAfterStop,
                   apVars, moVars, configPhases, dcVars>>

\* a dispatch loop that hands off when the first assign_task has returned,
\* whatever the number of agents
LaunchAssignResume_EarlyHandoff(k, ok) ==
    /\ lfPc[k] = "assign_task"
    /\ IF ~ok
       THEN LaunchExcept(k)
       ELSE LaunchRecordPhase(k, lfAgents[k],
               Append(lfTasks[k], TaskId(lfProject[k], Len(lfTasks[k]) + 1)))
    /\ UNCHANGED <<status, current_project_id, frameOfCtl, frameOfLoops,
                   lfProject, nextProject, frameOfStoppers, initDone,
                   stopHistory, cancelReq, stopReq, itersAfterStop,
                   apVars, moVars, configPhases, dcVars>>

\* assign_task for the next agent returns or raises (lines 186-203)
LaunchAssignResume(k, ok) ==
    /\ lfPc[k] = "assign_task"
    /\ IF ~ok
       THEN LaunchExcept(k)
       ELSE LET tasks == Append(lfTasks[k], TaskId(lfProject[k], Len(lfTasks[k]) + 1))
            IN IF Len(tasks) < lfAgents[k]
               THEN /\ lfTasks' = [lfTasks EXCEPT ![k] = tasks]
                    /\ UNCHANGED <<lfPc, lfAgents, running_workflows>>
               ELSE LaunchRecordPhase(k, lfAgents[k], tasks)
    /\ UNCHANGED <<status, current_project_id, frameOfCtl, frameOfLoops,
                   lfProject, nextProject, frameOfStoppers, initDone,
                   stopHistory, cancelReq, stopReq, itersAfterStop,
                   apVars, moVars, configPhases, dcVars>>

\* one of the awaits of lines 203, 152 and 159 returns or raises: the
\* research_coordination trigger, then create_workflow_graph, then
\* workflow_graph.run, after which the project id is returned (line 169)
LaunchHandoffResume(k, ok) ==
    /\ lfPc[k] \in {"trigger_workflow", "create_workflow_graph", "run"}
    /\ IF ~ok
       THEN LaunchExcept(k)
       ELSE /\ lfPc' = [lfPc EXCEPT ![k] =
                   CASE lfPc[k] = "trigger_workflow" -> "create_workflow_graph"
                     [] lfPc[k] = "create_workflow_graph" -> "run"
                     [] lfPc[k] = "run" -> "returned"]
            /\ UNCHANGED <<running_workflows, lfAgents, lfTasks>>
    /\ UNCHANGED <<status, current_project_id, frameOfCtl, frameOfLoops,
                   lfProject, nextProject, frameOfStoppers,
                   initDone, stopHistory, cancelReq, stopReq, itersAfterStop,
                   apVars, moVars, configPhases, dcVars>>

-----------------------------------------------------------------------------
(***************************************************************************)
(* monitor_agent_states (lines 247-255) and get_orchestration_status       *)
(* (lines 272-282), which calls it.  Neither has a try block: a raise of a *)
(* collaborator goes to the caller.                                        *)
(***************************************************************************)

MonitorOps == {"monitor_agent_states", "get_orchestration_status"}

\* the operations of the collaborators that create or change Agent,
\* Task or Project records
MutatingOps ==
    {"assign_task", "create_project", "cancel_workflow", "resolve_cycles",
     "approve_deployment"}

\* line 249 (reached from line 274 by get_orchestration_status):
\* agent_manager.get_all_agent_states is issued
MonitorBegin(m, op) ==
    /\ moPc[m] = "idle"
    /\ moOp' = [moOp EXCEPT ![m] = op]
    /\ moInvoked' = [moInvoked EXCEPT ![m] = {"get_all_agent_states"}]
    /\ moPc' = [moPc EXCEPT ![m] = "get_all_agent_states"]
    /\ UNCHANGED <<status, current_project_id, running_workflows, frameOfCtl,
                   frameOfLoops, frameOfLaunch, frameOfStoppers, initDone,
                   stopHistory, cancelReq, stopReq, itersAfterStop,
                   recordedAgents, apVars, configPhases, dcVars>>

\* a monitor that forgets the current project when it has read the states
MonitorStatesResume_ClearsProject(m, ok, n) ==
    /\ moPc[m] = "get_all_agent_states"
    /\ current_project_id' = NoProject
    /\ moPc' = [moPc EXCEPT ![m] = IF ok THEN "returned" ELSE "raised"]
    /\ UNCHANGED <<status, running_workflows, frameOfCtl, frameOfLoops,
                   frameOfLaunch, frameOfStoppers, initDone, stopHistory,
                   cancelReq, stopReq, itersAfterStop, moOp, moInvoked,
                   recordedAgents, apVars, configPhases, dcVars>>

\* get_all_agent_states returns the states of n agents, or raises
\* (lines 249-255, 274-281).  On return metrics.record_agent_state is
\* called for each agent; monitor_agent_states then returns, and
\* get_orchestration_status reads status, current_project_id and
\* len(running_workflows) and issues metrics.get_summary
MonitorStatesResume(m, ok, n) ==
    /\ moPc[m] = "get_all_agent_states"
    /\ IF ~ok
       THEN /\ moPc' = [moPc EXCEPT ![m] = "raised"]
            /\ UNCHANGED <<moInvoked, recordedAgents>>
       ELSE /\ recordedAgents' = recordedAgents \cup (1..n)
            /\ LET recorded == IF n > 0 THEN {"record_agent_state"} ELSE {}
               IN IF moOp[m] = "monitor_agent_states"
                  THEN /\ moPc' = [moPc EXCEPT ![m] = "returned"]
                       /\ moInvoked' = [moInvoked EXCEPT ![m] = @ \cup recorded]
                  ELSE /\ moPc' = [moPc EXCEPT ![m] = "get_summary"]
                       /\ moInvoked' = [moInvoked EXCEPT ![m] =
                             @ \cup recorded \cup {"get_summary"}]
    /\ UNCHANGED <<status, current_project_id, running_workflows, frameOfCtl,
                   frameOfLoops, frameOfLaunch, frameOfStoppers, initDone,
                   stopHistory, cancelReq, stopReq, itersAfterStop, moOp,
                   apVars, configPhases, dcVars>>

\* metrics.get_summary returns or raises (lines 281-282)
MonitorSummaryResume(m, ok) ==
    /\ moPc[m] = "get_summary"
    /\ moPc' = [moPc EXCEPT ![m] = IF ok THEN "returned" ELSE "raised"]
    /\ UNCHANGED <<status, current_project_id, running_workflows, frameOfCtl,
                   frameOfLoops, frameOfLaunch, frameOfStoppers, initDone,
                   stopHistory, cancelReq, stopReq, itersAfterStop, moOp,
                   moInvoked, recordedAgents, apVars, configPhases, dcVars>>

-----------------------------------------------------------------------------
(***************************************************************************)
(* detect_cyclical_dependencies (lines 257-270).  It has no try block: a   *)
(* raise of a collaborator goes to the caller.                             *)
(***************************************************************************)

\* the cycle lists detect_cycles may return: none, one cycle, a self-loop,
\* two overlapping cycles
CycleLists ==
    { << >>,
      << <<"A", "B", "C">> >>,
      << <<"B">> >>,
      << <<"A", "B">>, <<"B", "C">> >> }

\* everything but the variables of the detect_cyclical_dependencies calls
nonDcVars ==
    <<status, current_project_id, running_workflows, frameOfCtl, frameOfLoops,
      frameOfLaunch, frameOfStoppers, initDone, stopHistory, cancelReq,
      stopReq, itersAfterStop, apVars, moVars, configPhases>>

\* the list object cycles as deployment_manager.resolve_cycles leaves it:
\* resolve_cycles removes dependency edges of the project and records the
\* removals; the list it is given is not altered
CyclesAfterResolve(cycles) == cycles

\* line 259: workflow_manager.get_project_dependencies is issued
DetectBegin(d, p) ==
    /\ dcPc[d] = "idle"
    /\ dcProject' = [dcProject EXCEPT ![d] = p]
    /\ dcCalls' = [dcCalls EXCEPT ![d] = <<"get_project_dependencies">>]
    /\ dcPc' = [dcPc EXCEPT ![d] = "get_project_dependencies"]
    /\ UNCHANGED <<dcCycles, dcResult, nonDcVars>>

\* get_project_dependencies returns or raises (lines 259-260); on return
\* deployment_manager.detect_cycles is issued
DetectDependenciesResume(d, ok) ==
    /\ dcPc[d] = "get_project_dependencies"
    /\ IF ok
       THEN /\ dcCalls' = [dcCalls EXCEPT ![d] = Append(@, "detect_cycles")]
            /\ dcPc' = [dcPc EXCEPT ![d] = "detect_cycles"]
       ELSE /\ dcPc' = [dcPc EXCEPT ![d] = "raised"]
            /\ UNCHANGED dcCalls
    /\ UNCHANGED <<dcProject, dcCycles, dcResult, nonDcVars>>

\* a detection that asks for resolution whatever it found
DetectCyclesResume_AlwaysResolve(d, ok, cycles) ==
    /\ dcPc[d] = "detect_cycles"
    /\ IF ~ok
       THEN /\ dcPc' = [dcPc EXCEPT ![d] = "raised"]
            /\ UNCHANGED <<dcCycles, dcCalls, dcResult>>
       ELSE /\ dcCycles' = [dcCycles EXCEPT ![d] = cycles]
            /\ dcCalls' = [dcCalls EXCEPT ![d] = Append(@, "resolve_cycles")]
            /\ dcPc' = [dcPc EXCEPT ![d] = "resolve_cycles"]
            /\ UNCHANGED dcResult
    /\ UNCHANGED <<dcProject, nonDcVars>>

\* detect_cycles returns a cycle list or raises (lines 260-270): a
\* non-empty list is logged and resolve_cycles issued; an empty one is
\* returned
DetectCyclesResume(d, ok, cycles) ==
    /\ dcPc[d] = "detect_cycles"
    /\ IF ~ok
       THEN /\ dcPc' = [dcPc EXCEPT ![d] = "raised"]
            /\ UNCHANGED <<dcCycles, dcCalls, dcResult>>
       ELSE /\ dcCycles' = [dcCycles EXCEPT ![d] = cycles]
            /\ IF cycles # << >>
               THEN /\ dcCalls' = [dcCalls EXCEPT ![d] = Append(@, "resolve_cycles")]
                    /\ dcPc' = [dcPc EXCEPT ![d] = "resolve_cycles"]
                    /\ UNCHANGED dcResult
               ELSE /\ dcResult' = [dcResult EXCEPT ![d] = <<cycles>>]
                    /\ dcPc' = [dcPc EXCEPT ![d] = "returned"]
                    /\ UNCHANGED dcCalls
    /\ UNCHANGED <<dcProject, nonDcVars>>

\* resolve_cycles returns or raises (lines 268-270); on return the local
\* cycles is returned
DetectResolveResume(d, ok) ==
    /\ dcPc[d] = "resolve_cycles"
    /\ IF ok
       THEN /\ dcResult' = [dcResult EXCEPT
                                ![d] = <<CyclesAfterResolve(dcCycles[d])>>]
            /\ dcPc' = [dcPc EXCEPT ![d] = "returned"]
       ELSE /\ dcPc' = [dcPc EXCEPT ![d] = "raised"]
            /\ UNCHANGED dcResult
    /\ UNCHANGED <<dcProject, dcCycles, dcCalls, nonDcVars>>

DetectNext ==
    \/ \E d \in Detectors, p \in ProjectIds : DetectBegin(d, p)
    \/ \E d \in Detectors, ok \in BOOLEAN : DetectDependenciesResume(d, ok)
    \/ \E d \in Detectors, ok \in BOOLEAN, cycles \in CycleLists :
          DetectCyclesResume(d, ok, cycles)
    \/ \E d \in Detectors, ok \in BOOLEAN : DetectResolveResume(d, ok)

-----------------------------------------------------------------------------
\* start(), stop() and the health-check loops
LifecycleNext ==
    \/ StartBegin
    \/ \E ok \in BOOLEAN : StartInitResume(ok)
    \/ StopBegin
    \/ \E ok \in BOOLEAN : StopShutdownResume(ok)
    \/ \E l \in Loops : HealthLoopTop(l)
    \/ \E l \in Loops, ok \in BOOLEAN : HealthCheckResume(l, ok)

\* stop(), stop_workflow and launch_full_workflow
WorkflowNext ==
    \/ StopBegin
    \/ \E ok \in BOOLEAN : StopCancelResume(ok)
    \/ \E ok \in BOOLEAN : StopN8nResume(ok)
    \/ \E ok \in BOOLEAN : StopShutdownResume(ok)
    \/ \E s \in Stoppers, w \in ProjectIds : StopWorkflowBegin(s, w)
    \/ \E s \in Stoppers, ok \in BOOLEAN : StopWorkflowCancelResume(s, ok)
    \/ \E s \in Stoppers, ok \in BOOLEAN : StopWorkflowN8nResume(s, ok)
    \/ \E k \in Launchers : LaunchBegin(k)
    \/ \E k \in Launchers, ok \in BOOLEAN : LaunchCreateResume(k, ok)
    \/ \E k \in Launchers, ok \in BOOLEAN, n \in 0..MaxAgents :
          LaunchAgentsResume(k, ok, n)
    \/ \E k \in Launchers, ok \in BOOLEAN : LaunchAssignResume(k, ok)
    \/ \E k \in Launchers, ok \in BOOLEAN : LaunchHandoffResume(k, ok)

\* the status queries, with the calls that write what they read: start()
\* and launch_full_workflow
MonitorNext ==
    \/ \E m \in Monitors, op \in MonitorOps : MonitorBegin(m, op)
    \/ \E m \in Monitors, ok \in BOOLEAN, n \in 0..MaxAgents :
          MonitorStatesResume(m, ok, n)
    \/ \E m \in Monitors, ok \in BOOLEAN : MonitorSummaryResume(m, ok)
    \/ StartBegin
    \/ \E ok \in BOOLEAN : StartInitResume(ok)
    \/ \E k \in Launchers : LaunchBegin(k)
    \/ \E k \in Launchers, ok \in BOOLEAN : LaunchCreateResume(k, ok)
    \/ \E k \in Launchers, ok \in BOOLEAN, n \in 0..MaxAgents :
          LaunchAgentsResume(k, ok, n)
    \/ \E k \in Launchers, ok \in BOOLEAN : LaunchAssignResume(k, ok)
    \/ \E k \in Launchers, ok \in BOOLEAN : LaunchHandoffResume(k, ok)

\* the same with start()
TeardownNext ==
    \/ StartBegin
    \/ \E ok \in BOOLEAN : StartInitResume(ok)
    \/ WorkflowNext

-----------------------------------------------------------------------------
\* the state after TuOrchestrator.__init__ (lines 44-68), whatever the
\* configuration; no call has begun
InitFields ==
    /\ status = "idle"
    /\ current_project_id = NoProject
    /\ running_workflows = [q \in {} |-> StartingEntry]
    /\ ctlPc = "idle"
    /\ ctlIdx = 0
    /\ stopTodo = << >>
    /\ starts = 0
    /\ stops = 0
    /\ hcPc = [l \in Loops |-> "none"]
    /\ hcIdx = [l \in Loops |-> 0]
    /\ hcInvoked = [l \in Loops |-> {}]
    /\ hcRaised = [l \in Loops |-> FALSE]
    /\ lfPc = [k \in Launchers |-> "idle"]
    /\ lfProject = [k \in Launchers |-> NoProject]
    /\ lfAgents = [k \in Launchers |-> 0]
    /\ lfTasks = [k \in Launchers |-> << >>]
    /\ nextProject = 0
    /\ swPc = [s \in Stoppers |-> "idle"]
    /\ swWid = [s \in Stoppers |-> NoProject]
    /\ stoppedIds = {}
    /\ keyErrors = {}
    /\ moPc = [m \in Monitors |-> "idle"]
    /\ moOp = [m \in Monitors |-> "none"]
    /\ moInvoked = [m \in Monitors |-> {}]
    /\ recordedAgents = {}
    /\ dcPc = [d \in Detectors |-> "idle"]
    /\ dcProject = [d \in Detectors |-> NoProject]
    /\ dcCycles = [d \in Detectors |-> << >>]
    /\ dcCalls = [d \in Detectors |-> << >>]
    /\ dcResult = [d \in Detectors |-> << >>]
    /\ apPc = [a \in Approvers |-> "idle"]
    /\ apProposal = [a \in Approvers |-> NoProposal]
    /\ is_valid = [a \in Approvers |-> "unset"]
    /\ has_cycles = [a \in Approvers |-> "unset"]
    /\ apInvoked = [a \in Approvers |-> {}]
    /\ apFault = [a \in Approvers |-> FALSE]
    /\ approveCalls = [p \in ProposalIds |-> 0]
    /\ approved = {}
    /\ initDone = {}
    /\ stopKeys = {}
    /\ stopSkipped = {}
    /\ cancelReq = {}
    /\ teardownCancelled = {}
    /\ shutdownLog = << >>
    /\ stopReq = FALSE
    /\ itersAfterStop = [l \in Loops |-> 0]

\* an instance with the default settings
Init ==
    /\ configPhases = workflow_phases
    /\ InitFields

\* an instance with any of the configurations
ConfiguredInit ==
    /\ configPhases \in PhaseLists
    /\ InitFields

Next ==
    LifecycleNext \/ WorkflowNext \/ ApprovalNext \/ MonitorNext \/ DetectNext

\* every coroutine of the model together
Spec == Init /\ [][Next]_vars

(***************************************************************************)
(* The scenarios the properties are checked under.  Each runs a part of    *)
(* the coroutines of Spec, so each of its behaviours is one of Spec.       *)
(*   LifecycleSpec  the owner's start() and stop() calls and the           *)
(*                  health-check loops they create: every writer of status *)
(*                  and the loops that read it                             *)
(*   WorkflowSpec   the owner's stop() calls, direct stop_workflow calls   *)
(*                  and launch_full_workflow calls: every writer of        *)
(*                  running_workflows                                      *)
(*   TeardownSpec   WorkflowSpec with the owner's start() calls, so that   *)
(*                  stop() is also called in the Running and Error states  *)
(*   ApprovalSpec   the approve_deployment calls                           *)
(*   MonitorSpec    the status queries, with the start() and               *)
(*                  launch_full_workflow calls                             *)
(*   DetectSpec     the detect_cyclical_dependencies calls                 *)
(* These start from the default settings; ConfiguredWorkflowSpec is        *)
(* WorkflowSpec started from any of the configurations of PhaseLists.      *)
(***************************************************************************)
LifecycleSpec == Init /\ [][LifecycleNext]_vars

WorkflowSpec == Init /\ [][WorkflowNext]_vars

TeardownSpec == Init /\ [][TeardownNext]_vars

ApprovalSpec == Init /\ [][ApprovalNext]_vars

\* LifecycleSpec with the scheduling asyncio gives a health-check task: a
\* task that is ready to run (just created), or whose sleep has a finite
\* interval, is run again
MonitorSpec == Init /\ [][MonitorNext]_vars

DetectSpec == Init /\ [][DetectNext]_vars

\* WorkflowSpec for an instance with any of the configurations
ConfiguredWorkflowSpec == ConfiguredInit /\ [][WorkflowNext]_vars

LifecycleFairSpec ==
    LifecycleSpec /\ \A l \in Loops : WF_vars(HealthLoopTop(l))

-----------------------------------------------------------------------------
(***************************************************************************)
(* Properties.                                                             *)
(***************************************************************************)

Reverse(s) == [i \in 1..Len(s) |-> s[Len(s) + 1 - i]]

\* the subordinate components, in the order start() initialises them
Components == SubSeq(InitOrder, 1, 5)

IsComponent(c) == c \in Range(Components)

\* workflow_graph.run of launch k has been issued and has not returned
GraphRunInFlight(k) == lfPc[k] = "run"

\* C1: approve_deployment rejects by short-circuit.  When validate_proposal
\* returned false the call has returned False having invoked nothing else;
\* when check_cyclical_dependencies reported a cycle the call has returned
\* False having invoked neither the approval issuance nor the trigger; and
\* deployment_manager.approve_deployment is invoked only by a call whose
\* validation passed and whose cycle check found no cycle.
C1_ApprovalOnlyAfterBothChecks ==
    /\ \A a \in Approvers :
          /\ is_valid[a] = "False" =>
                /\ apPc[a] = "returned_False"
                /\ apInvoked[a] = {"validate_proposal"}
          /\ has_cycles[a] = "True" =>
                /\ apPc[a] = "returned_False"
                /\ apInvoked[a] = {"validate_proposal", "check_cyclical_dependencies"}
          /\ "approve_deployment" \in apInvoked[a] =>
                is_valid[a] = "True" /\ has_cycles[a] = "False"
    /\ \A p \in Proposals :
          approveCalls[p.id] > 0 =>
             ValidateProposal(p) /\ ~CheckCyclicalDependencies(p)

\* C1 witness: the three-cycle was rejected by the cycle check, the self-loop
\* too, and the approval of the DAG was issued
C1_Witness ==
    \E a, b \in Approvers :
       /\ apProposal[a].id \in {"cycle3", "selfloop"}
       /\ has_cycles[a] = "True"
       /\ apPc[a] = "returned_False"
       /\ apProposal[b].id = "dag"
       /\ "approve_deployment" \in apInvoked[b]

\* C2: start() exposes no partial-running state.  While start() is
\* initialising, status is Initializing (never Running); when it returns,
\* status is Running and every initialisation (and the metrics start) has
\* completed; when it raises, status is Error.
C2_NoPartialRunning ==
    /\ ctlPc = "initialize" => status = "initializing"
    /\ ctlPc = "start_returned" =>
          status = "running" /\ initDone = Range(InitOrder)
    /\ ctlPc = "start_raised" =>
          status = "error" /\ initDone # Range(InitOrder)

\* C2 witness: a second start(), begun while Running, failed in its last
\* await
C2_Witness ==
    /\ ctlPc = "start_raised"
    /\ starts = 2
    /\ Cardinality(initDone) = Len(InitOrder) - 1

\* C3 as claimed: when stop() returns, every workflow that was in
\* running_workflows when it began had its cancellation requested before
\* the first component was asked to shut down, the components were shut
\* down in reverse initialisation order, and status is Idle.
C3_StopCancelsEverySnapshotWorkflow ==
    ctlPc = "stop_returned" =>
       /\ stopKeys \subseteq teardownCancelled
       /\ SelectSeq(shutdownLog, IsComponent) = Reverse(Components)
       /\ status = "idle"

\* C3 as amended: when stop() returns, every workflow that was in
\* running_workflows when it began and was still there when stop() came to
\* it had its cancellation requested before the first component was asked
\* to shut down, the components were shut down in reverse initialisation
\* order, and status is Idle.
C3_StopCancelsEveryWorkflowStillPresent ==
    ctlPc = "stop_returned" =>
       /\ (stopKeys \ stopSkipped) \subseteq teardownCancelled
       /\ SelectSeq(shutdownLog, IsComponent) = Reverse(Components)
       /\ status = "idle"

\* C3 witness: a stop() that followed a successful start() has returned, having
\* cancelled one workflow and passed over another that a failed launch had
\* removed without cancellation
C3_Witness ==
    /\ ctlPc = "stop_returned"
    /\ \E l \in Loops : hcPc[l] = "created"
    /\ stopKeys \ stopSkipped # {}
    /\ stopSkipped \ cancelReq # {}

\* C4 as claimed: when stop() raises because the stopping of a workflow
\* failed (no shutdown was issued yet) or because the shutdown of a
\* component failed (the last one issued), every component has still been
\* asked to shut down.
C4_BestEffortTeardown ==
    (/\ ctlPc = "stop_raised"
     /\ \/ shutdownLog = << >>
        \/ IsComponent(shutdownLog[Len(shutdownLog)]))
    => Range(Components) \subseteq Range(shutdownLog)

\* C5 as claimed: when stop() raises, status is Error.
C5_StopFaultForcesError ==
    ctlPc = "stop_raised" => status = "error"

\* C6 as claimed: launch_full_workflow does not wait for the graph run;
\* while the run of a launch is in flight the launch has returned its
\* project id.
C6_LaunchDoesNotWaitForRun ==
    \A k \in Launchers : GraphRunInFlight(k) => lfPc[k] = "returned"

\* C7: a launch that raises after its project was created leaves no entry
\* for that project in running_workflows.
C7_FailedLaunchLeavesNoEntry ==
    \A k \in Launchers :
       lfPc[k] = "raised" =>
          lfProject[k] # NoProject /\ lfProject[k] \notin Keys

\* C7 witness: a launch has raised, its entry removed by its own except
\* clause (no stop_workflow was asked for it), while another project is
\* running
C7_Witness ==
    \E k \in Launchers :
       /\ lfPc[k] = "raised"
       /\ lfProject[k] \notin cancelReq
       /\ \E q \in Keys : running_workflows[q].status = "running"

\* C8 as claimed: a call of approve_deployment in which a collaborator
\* raised does not end by returning False.
C8_FaultSurfacedAsError ==
    \A a \in Approvers : apFault[a] => apPc[a] # "returned_False"

\* C9 as claimed: deployment_manager.approve_deployment is invoked at most
\* once for a proposal identity.
C9_ApprovalIssuedAtMostOnce ==
    \A id \in ProposalIds : approveCalls[id] <= 1

\* C10 as claimed: after a stop() call has begun, a health-check loop
\* begins at most one more iteration.
C10_AtMostOneIterationAfterStop ==
    \A l \in Loops : itersAfterStop[l] <= 1

\* C11 as claimed: an iteration of the health-check loop in which a health
\* check raised has still invoked the health check of every collaborator.
C11_FailureDoesNotSkipOtherChecks ==
    \A l \in Loops :
       (hcPc[l] = "sleep" /\ hcRaised[l]) => hcInvoked[l] = Range(HealthOrder)

\* a step of loop l in which a health check raises
HealthCheckRaises(l) ==
    hcPc[l] = "health_check" /\ hcPc'[l] # "health_check" /\ hcRaised'[l]

\* C12: a failing health check never aborts the loop.  The step in which a
\* health check raises leaves the loop alive (sleeping) and the status as
\* it was, and a loop sleeping after such an iteration begins another
\* iteration unless the status is no longer Running.
C12_FailingCheckNeverAbortsLoop ==
    /\ [][\A l \in Loops :
             HealthCheckRaises(l) => (hcPc'[l] = "sleep" /\ status' = status)]_vars
    /\ \A l \in Loops :
          (hcPc[l] = "sleep" /\ hcRaised[l])
             ~> (hcPc[l] = "health_check" \/ status # "running")

\* C12 witness: a loop whose last iteration ended in a raise of its first
\* check is in a new iteration, the status still Running
C12_Witness ==
    \E l \in Loops :
       /\ hcPc[l] = "health_check"
       /\ hcRaised[l]
       /\ status = "running"

\* launch k has issued the research_coordination trigger (line 203), the
\* first call of the handoff
HandedOff(k) ==
    lfPc[k] \in {"trigger_workflow", "create_workflow_graph", "run", "returned"}

\* C13: phase-1 dispatch completes before handoff.  Once a launch has
\* issued the research_coordination trigger (and so also when the workflow
\* graph is created or run), assign_task has returned a task id for every
\* agent get_agents_by_phase returned, in the agents' order.
C13_DispatchCompleteBeforeHandoff ==
    \A k \in Launchers :
       HandedOff(k) =>
          /\ Len(lfTasks[k]) = lfAgents[k]
          /\ \A a \in 1..lfAgents[k] : lfTasks[k][a] = TaskId(lfProject[k], a)

\* C13 witness: a launch with two agents or more is creating the workflow
\* graph
C13_Witness ==
    \E k \in Launchers :
       /\ lfPc[k] = "create_workflow_graph"
       /\ lfAgents[k] >= 2
       /\ Len(lfTasks[k]) = lfAgents[k]

\* launch k has returned its project id and the project is still recorded
Launched(k) == lfPc[k] = "returned" /\ lfProject[k] \in Keys

\* C14 as claimed: after a successful launch, whatever the configured phase
\* list, the current phase of the project is the first phase of that list
\* and the recorded phase-1 task list holds exactly one task id per agent
\* returned for the phase, none missing and none duplicated.
C14_FirstConfiguredPhaseOneTaskPerAgent ==
    \A k \in Launchers :
       Launched(k) =>
          LET entry == running_workflows[lfProject[k]]
          IN /\ entry.current_phase = configPhases[1]
             /\ entry.research_tasks =
                   [a \in 1..lfAgents[k] |-> TaskId(lfProject[k], a)]

\* C15 as claimed: in every state the current phase recorded for each
\* project of running_workflows is a member of the configured phase list.
C15_CurrentPhaseIsConfiguredPhase ==
    \A q \in Keys : running_workflows[q].current_phase \in Range(configPhases)

\* C16 as claimed: stopping a workflow is idempotent.  No stop_workflow call
\* raises because another stop request removed the entry of its workflow
\* meanwhile, and the step in which a stop_workflow call returns (be it for
\* an id that is not in running_workflows) leaves no entry for its id.
C16_DuplicateStopTolerated ==
    /\ [](\A e \in keyErrors : e[2] \notin stoppedIds)
    /\ [][\A s \in Stoppers :
             (swPc[s] # "returned" /\ swPc'[s] = "returned")
                => swWid'[s] \notin DOMAIN running_workflows']_vars

\* a step of the status query m
MonitorStep(m) == moPc'[m] # moPc[m]

\* C17: monitor_agent_states and get_orchestration_status are read-only.
\* Every step of such a call leaves status, current_project_id and
\* running_workflows as they were, and the only collaborator operations
\* the call invokes are the reading of the agent states and the metrics'
\* recording and summary: none that changes an agent or project record.
C17_MonitoringIsReadOnly ==
    /\ [][\A m \in Monitors :
             MonitorStep(m) =>
                UNCHANGED <<status, current_project_id, running_workflows>>]_vars
    /\ [](\A m \in Monitors :
             /\ moInvoked[m] \subseteq
                   {"get_all_agent_states", "record_agent_state", "get_summary"}
             /\ moInvoked[m] \cap MutatingOps = {})

\* C17 witness: get_orchestration_status has returned, the agents' states
\* recorded in the metrics, while a project is running and the
\* orchestrator is Running
C17_Witness ==
    \E m \in Monitors :
       /\ moPc[m] = "returned"
       /\ moOp[m] = "get_orchestration_status"
       /\ recordedAgents # {}
       /\ status = "running"
       /\ current_project_id # NoProject
       /\ \E q \in Keys : running_workflows[q].status = "running"

\* C18 as claimed: once the status is Error, no step of any operation of
\* the instance moves it out of Error.
C18_ErrorIsAbsorbing ==
    [][status = "error" => status' = "error"]_vars

\* a step in which launch k, suspended in assign_task, is reported failed
\* although the entry of its project is there: the assign_task call raised
\* (had it returned, line 198 would have found the entry) and the launch
\* went to its except clause with no call in between
AssignFailureEndsLaunch(k) ==
    /\ lfPc[k] = "assign_task"
    /\ lfProject[k] \in Keys
    /\ lfPc'[k] = "raised"

\* C19 as claimed: a launch in which an assign_task call raised is not
\* reported as failed before the orchestrator has tried to route the task
\* to another agent: no launch fails in the step in which its assign_task
\* call raised.
C19_RerouteBeforeFailure ==
    [][\A k \in Launchers : ~AssignFailureEndsLaunch(k)]_vars

\* the create_project call of launch k raised, and the caller received the
\* UnboundLocalError of line 173 in its place
UnboundLocalErrorSurfaced(k) == lfPc[k] = "raised_unbound"

\* a step of launch k that ends with no project created for it
StepWithoutProject(k) == lfPc'[k] # lfPc[k] /\ lfProject'[k] = NoProject

\* C20 as claimed: when create_project raises, the caller of the launch
\* receives that failure (and no other), and the steps of the launch have
\* left running_workflows and current_project_id as they were.
C20_CreateFailureSurfacedUnchanged ==
    /\ [](\A k \in Launchers : ~UnboundLocalErrorSurfaced(k))
    /\ [][\A k \in Launchers :
             StepWithoutProject(k) =>
                UNCHANGED <<running_workflows, current_project_id>>]_vars

\* how many times the call d issued the collaborator call op
CallCount(d, op) == Cardinality({i \in 1..Len(dcCalls[d]) : dcCalls[d][i] = op})

\* C21: detect_cyclical_dependencies never runs detection twice and never
\* asks for resolution twice; it asks for resolution only of a non-empty
\* cycle list; and when it returns it has asked for resolution exactly
\* once if detect_cycles returned a non-empty list and not at all if the
\* list was empty, and the list it returns is the one detect_cycles
\* returned.
C21_ResolveOnceNoRedetect ==
    \A d \in Detectors :
       /\ CallCount(d, "detect_cycles") <= 1
       /\ CallCount(d, "resolve_cycles") <= 1
       /\ CallCount(d, "resolve_cycles") = 1 => dcCycles[d] # << >>
       /\ dcPc[d] = "returned" =>
             /\ CallCount(d, "detect_cycles") = 1
             /\ CallCount(d, "resolve_cycles") = IF dcCycles[d] # << >> THEN 1 ELSE 0
             /\ dcResult[d] = <<dcCycles[d]>>

\* C21 witness: one call has returned two overlapping cycles after their
\* resolution, another has returned the empty list with no resolution
C21_Witness ==
    \E d, e \in Detectors :
       /\ dcPc[d] = "returned"
       /\ Len(dcCycles[d]) = 2
       /\ dcCalls[d][Len(dcCalls[d])] = "resolve_cycles"
       /\ dcPc[e] = "returned"
       /\ dcResult[e] = << << >> >>
       /\ CallCount(e, "resolve_cycles") = 0

\* deployment_manager.approve_deployment returned in the call a (line 232):
\* the approval issuance of this call took effect
ApprovalTookEffect(a) == "trigger_workflow" \in apInvoked[a]

\* C22 as claimed: a call of approve_deployment that returned False did not
\* issue an approval that took effect and its proposal is not marked
\* approved; the proposal of a call that returned True is marked approved.
C22_ReturnValueAgreesWithApproval ==
    \A a \in Approvers :
       /\ apPc[a] = "returned_False" =>
             /\ ~ApprovalTookEffect(a)
             /\ apProposal[a].id \notin approved
       /\ apPc[a] = "returned_True" => apProposal[a].id \in approved

\* C23 as claimed: in the step in which stop() returns (line 114, status
\* set to Idle) running_workflows is empty.
C23_StopReturnsWithNoWorkflow ==
    [][(ctlPc # "stop_returned" /\ ctlPc' = "stop_returned")
          => DOMAIN running_workflows' = {}]_vars

\* a step in which the launch k issues agent_manager.assign_task (line
\* 194), the research_coordination trigger (line 203) or workflow_graph.run
\* (line 159), or returns its project id (line 169)
DispatchesOrSucceeds(k) ==
    \/ /\ lfPc'[k] # lfPc[k]
       /\ lfPc'[k] \in {"assign_task", "trigger_workflow", "run", "returned"}
    \/ /\ lfPc[k] = "assign_task"
       /\ lfPc'[k] = "assign_task"
       /\ lfTasks'[k] # lfTasks[k]

\* C24 as claimed: once stop_workflow has removed a project from
\* running_workflows, the launch of that project issues no further
\* assign_task, research_coordination trigger or graph run and does not
\* return the project id.
C24_NoDispatchAfterStop ==
    [][\A k \in Launchers :
          lfProject[k] \in stoppedIds => ~DispatchesOrSucceeds(k)]_vars

\* the health-check loops that have been created (line 87) and have not
\* left their while loop (line 300)
ActiveLoops == {l \in Loops : hcPc[l] \in {"created", "health_check", "sleep"}}

\* C25 as claimed: at most one health-check loop is active.
C25_AtMostOneHealthLoop == Cardinality(ActiveLoops) <= 1

\* a step in which the loop l issues the health check of a collaborator
\* (lines 303-310)
IssuesHealthCheck(l) ==
    /\ hcPc'[l] = "health_check"
    /\ hcPc[l] # "health_check" \/ hcIdx'[l] # hcIdx[l]

\* C26 as claimed: no health check is issued on a collaborator that the
\* current stop() has already asked to shut down.
C26_NoHealthCheckAfterShutdown ==
    [][\A l \in Loops :
          IssuesHealthCheck(l) => HealthOrder[hcIdx'[l]] \notin Range(shutdownLog)]_vars

\* the entry e has a phase-1 task list (key "research_tasks", line 200)
HasTaskList(e) == "research_tasks" \in DOMAIN e

\* the entry e is as lines 142-146 write it / as lines 198-200 leave it
ConsistentEntry(e) ==
    /\ e.status \in {"starting", "running"}
    /\ e.status = "starting" <=> (e.current_phase = "None" /\ ~HasTaskList(e))
    /\ e.status = "running" <=>
          (e.current_phase = "research_fact_gathering" /\ HasTaskList(e))

\* C27: every entry of running_workflows is consistent in every state:
\* its status is "starting" or "running", "starting" exactly when no phase
\* and no phase-1 task list is recorded, "running" exactly when the phase
\* is the research phase and the task list is recorded; and no step takes
\* an entry from "running" to another status.
C27_EntriesConsistent ==
    /\ [](\A q \in Keys : ConsistentEntry(running_workflows[q]))
    /\ [][\A q \in Keys \cap DOMAIN running_workflows' :
            running_workflows[q].status = "running"
               => running_workflows'[q].status = "running"]_vars

\* C27 witness: one project is running with two phase-1 tasks recorded
\* while another is still starting
C27_Witness ==
    \E q, r \in Keys :
       /\ running_workflows[q].status = "running"
       /\ HasTaskList(running_workflows[q])
       /\ Len(running_workflows[q].research_tasks) = 2
       /\ running_workflows[r].status = "starting"

=============================================================================
